---- MODULE Spec2Model ----
(***************************************************************************)
(* Model of src/code.py: TransducerController.                             *)
(*                                                                         *)
(* Two control flows share the controller object: the foreground           *)
(* (TransducerController.run, which prompts, launches the ramp thread,     *)
(* joins it, and handles KeyboardInterrupt by emergency_stop) and the      *)
(* ramp thread (simulate_transducer_operation).  Every statement that      *)
(* reads or writes a shared field is one atomic step, so every             *)
(* interleaving of the two flows is explored.  The ramp thread is a daemon *)
(* thread: it is abandoned when the foreground leaves run().               *)
(***************************************************************************)
EXTENDS Integers, Sequences, FiniteSets

\* ---- program constants -------------------------------------------------
MIN_POWER == 50
MAX_POWER == 5000
power_increment == 10

\* ---- bounds of the model -----------------------------------------------
\* number of ramp cycles one session may launch
MaxCycles == 2
\* typed numbers explored around MIN_POWER: MIN_POWER-1 .. MIN_POWER+LowSpan
LowSpan == 11
\* typed numbers explored around MAX_POWER: MAX_POWER-HighSpan .. MAX_POWER+1
HighSpan == 0

\* the numbers a user types at the prompt (float(power_input) succeeded)
TypedNumbers ==
    {0, 35} \cup ((MIN_POWER - 1) .. (MIN_POWER + LowSpan))
            \cup ((MAX_POWER - HighSpan) .. (MAX_POWER + 1))

VARIABLES
    current_power,   \* self.current_power
    target_power,    \* self.target_power
    is_running,      \* self.is_running
    stop_event,      \* self.stop_event (threading.Event flag)
    fgPc,            \* position of the foreground in run()
    rampPc,          \* position of the ramp thread
    target,          \* local target_power of run() (line 102)
    rep78,           \* power printed by the foreground's line 78
    interrupted,     \* a KeyboardInterrupt has been raised in run()
    lastInput,       \* last number typed at the prompt
    lastValid,       \* what validate_power_setting returned for it
    launches,        \* number of operation_thread.start() so far
    progress,        \* values displayed by line 67 in the current run
    reports,         \* "TRANSDUCER STOPPED" reports printed since the last
                     \* operation_thread.start() (or since construction)
    setAt,           \* ramp position and power when stop_event.set() ran
    incsAfterSet,    \* executions of line 60 after stop_event.set()
    sleepsAfterSet   \* executions of line 69 after stop_event.set()

vars == << current_power, target_power, is_running, stop_event, fgPc, rampPc,
           target, rep78, interrupted, lastInput, lastValid, launches,
           progress, reports, setAt, incsAfterSet, sleepsAfterSet >>

shared == << current_power, target_power, is_running, stop_event >>
history == << lastInput, lastValid, launches, progress, reports, setAt,
              incsAfterSet, sleepsAfterSet >>

NoSet == [pc |-> "none", power |-> 0]

\* positions of the foreground inside the try block (lines 97-123)
LoopPcs == {"clear", "prompt", "assign", "start", "join", "continue"}
\* positions at which a ramp thread exists and has not finished
ActivePcs == {"init0", "init1", "while", "check", "incr", "clamp",
              "display", "sleep", "stop_flag", "stop_report"}

\* ---- pure helpers -------------------------------------------------------
InEnvelope(p) == MIN_POWER <= p /\ p <= MAX_POWER

Min(a, b) == IF a < b THEN a ELSE b

\* a range test that forgot the lower limit
validate_power_setting_lax(power) ==
    power <= MAX_POWER

\* a range test that forgot the upper limit
validate_power_setting_nomax(power) ==
    MIN_POWER <= power

validate_power_setting(power) ==
    MIN_POWER <= power /\ power <= MAX_POWER

\* line 56
\* a loop that gives up one step early
LoopCond_early(running, cur, tgt) == running /\ cur + power_increment < tgt

LoopCond(running, cur, tgt) == running /\ cur < tgt

\* lines 63-64
\* a step without the clamp
Clamp_none(cur, tgt) == cur

Clamp(cur, tgt) == IF cur > tgt THEN tgt ELSE cur

\* line 79
Reached(cur, tgt) == cur >= tgt

Init ==
    /\ current_power = 0
    /\ target_power = 0
    /\ is_running = FALSE
    /\ stop_event = FALSE
    /\ fgPc = "clear"
    /\ rampPc = "idle"
    /\ target = 0
    /\ rep78 = 0
    /\ interrupted = FALSE
    /\ lastInput = 0
    /\ lastValid = FALSE
    /\ launches = 0
    /\ progress = << >>
    /\ reports = << >>
    /\ setAt = NoSet
    /\ incsAfterSet = 0
    /\ sleepsAfterSet = 0

\* ---- foreground: run() --------------------------------------------------
\* line 99
ClearStop ==
    /\ fgPc = "clear"
    /\ stop_event' = FALSE
    /\ fgPc' = "prompt"
    /\ UNCHANGED << current_power, target_power, is_running, rampPc, target,
                    rep78, interrupted, history >>

\* lines 28-31, 104-106: 'q' typed
PromptQuit ==
    /\ fgPc = "prompt"
    /\ fgPc' = "ended"
    /\ UNCHANGED << shared, rampPc, target, rep78, interrupted, history >>

\* lines 33, 40-41: float() raises ValueError, prompt again
PromptBad ==
    /\ fgPc = "prompt"
    /\ UNCHANGED vars

\* lines 33-38: a number typed
PromptNumber ==
    /\ fgPc = "prompt"
    /\ \E power \in TypedNumbers :
          /\ lastInput' = power
          /\ lastValid' = validate_power_setting(power)
          /\ IF validate_power_setting(power)
                THEN target' = power /\ fgPc' = "assign"
                ELSE UNCHANGED << target, fgPc >>
    /\ UNCHANGED << shared, rampPc, rep78, interrupted, launches, progress,
                    reports, setAt, incsAfterSet, sleepsAfterSet >>

\* line 108
AssignTarget ==
    /\ fgPc = "assign"
    /\ target_power' = target
    /\ fgPc' = "start"
    /\ UNCHANGED << current_power, is_running, stop_event, rampPc, target,
                    rep78, interrupted, history >>

\* lines 111-115
StartThread ==
    /\ fgPc = "start"
    /\ rampPc' = "init0"
    /\ launches' = launches + 1
    /\ progress' = << >>
    /\ reports' = << >>
    /\ fgPc' = "join"
    /\ UNCHANGED << shared, target, rep78, interrupted, lastInput, lastValid,
                    setAt, incsAfterSet, sleepsAfterSet >>

\* a join that returns without waiting for the thread
JoinThread_nowait ==
    /\ fgPc = "join"
    /\ fgPc' = "continue"
    /\ UNCHANGED << shared, rampPc, target, rep78, interrupted, history >>

\* line 118
JoinThread ==
    /\ fgPc = "join"
    /\ rampPc = "done"
    /\ fgPc' = "continue"
    /\ UNCHANGED << shared, rampPc, target, rep78, interrupted, history >>

\* lines 121-122: 'y' typed
ContinueYes ==
    /\ fgPc = "continue"
    /\ launches < MaxCycles
    /\ fgPc' = "clear"
    /\ UNCHANGED << shared, rampPc, target, rep78, interrupted, history >>

\* lines 121-123: anything else typed
ContinueNo ==
    /\ fgPc = "continue"
    /\ fgPc' = "ended"
    /\ UNCHANGED << shared, rampPc, target, rep78, interrupted, history >>

\* a handler that only records the request and resumes where it was
Interrupt_resume ==
    /\ fgPc \in LoopPcs
    /\ ~interrupted
    /\ interrupted' = TRUE
    /\ stop_event' = TRUE
    /\ UNCHANGED << current_power, target_power, is_running, fgPc, rampPc,
                    target, rep78, history >>

\* lines 96, 125-127: KeyboardInterrupt raised anywhere inside the try block
Interrupt ==
    /\ fgPc \in LoopPcs
    /\ interrupted' = TRUE
    /\ fgPc' = "estop_set"
    /\ UNCHANGED << shared, rampPc, target, rep78, history >>

\* emergency_stop without the set
EmergencySet_noset ==
    /\ fgPc = "estop_set"
    /\ fgPc' = "estop_flag"
    /\ UNCHANGED << shared, rampPc, target, rep78, interrupted, history >>

\* lines 84-85
EmergencySet ==
    /\ fgPc = "estop_set"
    /\ stop_event' = TRUE
    /\ setAt' = [pc |-> rampPc, power |-> current_power]
    /\ fgPc' = "estop_flag"
    /\ UNCHANGED << current_power, target_power, is_running, rampPc, target,
                    rep78, interrupted, lastInput, lastValid, launches,
                    progress, reports, incsAfterSet, sleepsAfterSet >>

\* lines 86, 76
EmergencyFlag ==
    /\ fgPc = "estop_flag"
    /\ is_running' = FALSE
    /\ fgPc' = "estop_rep78"
    /\ UNCHANGED << current_power, target_power, stop_event, rampPc, target,
                    rep78, interrupted, history >>

\* line 78
EmergencyReport78 ==
    /\ fgPc = "estop_rep78"
    /\ rep78' = current_power
    /\ fgPc' = "estop_rep79"
    /\ UNCHANGED << shared, rampPc, target, interrupted, history >>

\* lines 79-80, 130
EmergencyReport79 ==
    /\ fgPc = "estop_rep79"
    /\ reports' = Append(reports,
                     [by |-> "emergency", power |-> rep78,
                      reached |-> Reached(current_power, target_power)])
    /\ fgPc' = "ended"
    /\ UNCHANGED << shared, rampPc, target, rep78, interrupted, lastInput,
                    lastValid, launches, progress, setAt, incsAfterSet,
                    sleepsAfterSet >>

\* lines 130, 135, 114: run() returns and the process exits; a daemon thread
\* that is still alive is abandoned wherever it is
ExitProcess ==
    /\ fgPc = "ended"
    /\ fgPc' = "exited"
    /\ rampPc' = IF rampPc \in ActivePcs THEN "killed" ELSE rampPc
    /\ UNCHANGED << shared, target, rep78, interrupted, history >>

\* ---- ramp thread: simulate_transducer_operation() ------------------------
RampAlive == fgPc # "exited"

\* a run that keeps the power left by the previous run
RampInit0_noreset ==
    /\ RampAlive /\ rampPc = "init0"
    /\ rampPc' = "init1"
    /\ UNCHANGED << shared, fgPc, target, rep78, interrupted, history >>

\* line 53
RampInit0 ==
    /\ RampAlive /\ rampPc = "init0"
    /\ current_power' = 0
    /\ rampPc' = "init1"
    /\ UNCHANGED << target_power, is_running, stop_event, fgPc, target, rep78,
                    interrupted, history >>

\* line 54
RampInit1 ==
    /\ RampAlive /\ rampPc = "init1"
    /\ is_running' = TRUE
    /\ rampPc' = "while"
    /\ UNCHANGED << current_power, target_power, stop_event, fgPc, target,
                    rep78, interrupted, history >>

\* line 56
RampWhile ==
    /\ RampAlive /\ rampPc = "while"
    /\ rampPc' = IF LoopCond(is_running, current_power, target_power)
                    THEN "check" ELSE "stop_flag"
    /\ UNCHANGED << shared, fgPc, target, rep78, interrupted, history >>

\* a loop that never looks at the event
RampCheck_nocheck ==
    /\ RampAlive /\ rampPc = "check"
    /\ rampPc' = "incr"
    /\ UNCHANGED << shared, fgPc, target, rep78, interrupted, history >>

\* lines 57-58
RampCheck ==
    /\ RampAlive /\ rampPc = "check"
    /\ rampPc' = IF stop_event THEN "stop_flag" ELSE "incr"
    /\ UNCHANGED << shared, fgPc, target, rep78, interrupted, history >>

\* line 60
RampIncr ==
    /\ RampAlive /\ rampPc = "incr"
    /\ current_power' = current_power + power_increment
    /\ incsAfterSet' = IF stop_event THEN incsAfterSet + 1 ELSE incsAfterSet
    /\ rampPc' = "clamp"
    /\ UNCHANGED << target_power, is_running, stop_event, fgPc, target, rep78,
                    interrupted, lastInput, lastValid, launches, progress,
                    reports, setAt, sleepsAfterSet >>

\* lines 63-64
RampClamp ==
    /\ RampAlive /\ rampPc = "clamp"
    /\ current_power' = Clamp(current_power, target_power)
    /\ rampPc' = "display"
    /\ UNCHANGED << target_power, is_running, stop_event, fgPc, target, rep78,
                    interrupted, history >>

\* line 67
RampDisplay ==
    /\ RampAlive /\ rampPc = "display"
    /\ progress' = Append(progress, current_power)
    /\ rampPc' = "sleep"
    /\ UNCHANGED << shared, fgPc, target, rep78, interrupted, lastInput,
                    lastValid, launches, reports, setAt, incsAfterSet,
                    sleepsAfterSet >>

\* line 69
RampSleep ==
    /\ RampAlive /\ rampPc = "sleep"
    /\ sleepsAfterSet' = IF stop_event THEN sleepsAfterSet + 1
                         ELSE sleepsAfterSet
    /\ rampPc' = "while"
    /\ UNCHANGED << shared, fgPc, target, rep78, interrupted, lastInput,
                    lastValid, launches, progress, reports, setAt,
                    incsAfterSet >>

\* lines 72, 76
RampStopFlag ==
    /\ RampAlive /\ rampPc = "stop_flag"
    /\ is_running' = FALSE
    /\ rampPc' = "stop_report"
    /\ UNCHANGED << current_power, target_power, stop_event, fgPc, target,
                    rep78, interrupted, history >>

\* lines 77-80
RampStopReport ==
    /\ RampAlive /\ rampPc = "stop_report"
    /\ reports' = Append(reports,
                     [by |-> "ramp", power |-> current_power,
                      reached |-> Reached(current_power, target_power)])
    /\ rampPc' = "done"
    /\ UNCHANGED << shared, fgPc, target, rep78, interrupted, lastInput,
                    lastValid, launches, progress, setAt, incsAfterSet,
                    sleepsAfterSet >>

Next ==
    \/ ClearStop
    \/ PromptQuit
    \/ PromptBad
    \/ PromptNumber
    \/ AssignTarget
    \/ StartThread
    \/ JoinThread
    \/ ContinueYes
    \/ ContinueNo
    \/ Interrupt
    \/ EmergencySet
    \/ EmergencyFlag
    \/ EmergencyReport78
    \/ EmergencyReport79
    \/ ExitProcess
    \/ RampInit0
    \/ RampInit1
    \/ RampWhile
    \/ RampCheck
    \/ RampIncr
    \/ RampClamp
    \/ RampDisplay
    \/ RampSleep
    \/ RampStopFlag
    \/ RampStopReport

Spec == Init /\ [][Next]_vars

\* the steps of the ramp thread
RampStep ==
    \/ RampInit0
    \/ RampInit1
    \/ RampWhile
    \/ RampCheck
    \/ RampIncr
    \/ RampClamp
    \/ RampDisplay
    \/ RampSleep
    \/ RampStopFlag
    \/ RampStopReport

\* the ramp thread is scheduled fairly for as long as the process lives
FairSpec == Spec /\ WF_vars(RampStep)

TypeOK ==
    /\ current_power \in 0 .. (MAX_POWER + power_increment)
    /\ target_power \in 0 .. MAX_POWER
    /\ is_running \in BOOLEAN
    /\ stop_event \in BOOLEAN
    /\ fgPc \in LoopPcs \cup {"estop_set", "estop_flag", "estop_rep78",
                              "estop_rep79", "ended", "exited"}
    /\ rampPc \in ActivePcs \cup {"idle", "done", "killed"}
    /\ launches \in 0 .. MaxCycles

\* ---- properties ---------------------------------------------------------

\* C1: a ramp run during which the stop signal is never set ends with
\* current_power equal to target_power and reports 'target reached' true,
\* for every accepted target, multiple of the step size or not.
C1_UninterruptedReachesTarget ==
    (rampPc = "done" /\ fgPc \in {"join", "continue"} /\ ~stop_event)
        => /\ current_power = target_power
           /\ reports = << [by |-> "ramp", power |-> target_power,
                            reached |-> TRUE] >>

C1_Witness ==
    /\ rampPc = "done" /\ fgPc = "join" /\ ~stop_event
    /\ target_power % power_increment # 0
    /\ current_power = target_power

\* C2: validate_power_setting(t) is true exactly for MIN_POWER <= t <=
\* MAX_POWER, and no ramp thread is ever started with a target_power
\* outside that range.
C2_OnlyValidatedTargetsRun ==
    /\ lastValid = InEnvelope(lastInput)
    /\ fgPc \in {"assign", "start"} => InEnvelope(target)
    /\ launches > 0 => InEnvelope(target_power)

C2_Witness ==
    /\ launches = 1 /\ rampPc = "done" /\ fgPc = "prompt"
    /\ lastInput = MAX_POWER + 1 /\ ~lastValid

\* C3: within one ramp run every displayed value is at least the one
\* displayed before it and at most target_power, whatever the emergency
\* stop does meanwhile.
C3_ProgressMonotoneAndBounded ==
    rampPc \in ActivePcs =>
        \A k \in 1 .. Len(progress) :
            /\ progress[k] <= target_power
            /\ k > 1 => progress[k - 1] <= progress[k]

C3_Witness ==
    /\ rampPc = "sleep" /\ stop_event
    /\ Len(progress) >= 2
    /\ progress[Len(progress)] = target_power
    /\ target_power % power_increment # 0

\* positions of the ramp thread between two steps of the loop, or after it
SettledPcs == {"while", "check", "sleep", "stop_flag", "stop_report", "done"}

\* the run whose values the shared fields currently hold
RunInView ==
    \/ rampPc \in ActivePcs
    \/ rampPc = "done" /\ fgPc \in {"join", "continue"}

\* the set fell inside or after the step that brings current_power to target
SetAtFinalStep ==
    /\ setAt.pc \in ActivePcs \ {"init0", "init1"}
    /\ IF setAt.pc = "incr"
          THEN setAt.power + power_increment >= target_power
          ELSE setAt.power >= target_power

\* C4 (as stated): once stop_event.set() has run, the ramp thread performs no
\* further increment, and current_power at the moment of the set is the value
\* at which the ramp thread terminates.
C4_NoIncrementAfterSet ==
    (stop_event /\ setAt.pc \in ActivePcs)
        => /\ incsAfterSet = 0
           /\ rampPc = "done" => current_power = setAt.power

\* C4 (amended): once stop_event.set() has run, the ramp thread begins no new
\* step; it performs at most one further increment, and only when the set
\* fell between the stop check (line 57) and the increment (line 60) of a
\* step already begun, which is then completed with its clamp.  The value at
\* which it terminates is the value at the set, advanced by that one pending
\* step where there was one.
C4_AtMostPendingIncrement ==
    (stop_event /\ setAt.pc \in ActivePcs)
        => /\ incsAfterSet <= 1
           /\ incsAfterSet = 1 => setAt.pc = "incr"
           /\ rampPc = "done" =>
                 current_power =
                    CASE setAt.pc = "incr" ->
                            Min(setAt.power + power_increment, target_power)
                      [] setAt.pc = "clamp" -> Min(setAt.power, target_power)
                      [] setAt.pc = "init0" -> 0
                      [] OTHER -> setAt.power

C4_Witness ==
    /\ rampPc = "done" /\ stop_event
    /\ setAt.pc = "incr" /\ incsAfterSet = 1
    /\ current_power = setAt.power + power_increment
    /\ current_power < target_power

\* C5: when stop_event.set() runs while a ramp thread is running, the thread
\* goes through at most one more step interval (line 69) before it leaves
\* the loop, and it ends with current_power < target_power unless the set
\* fell in or after the final step, in which case it ends with
\* current_power = target_power and the signal set.
C5_StopWithinOneStep ==
    (stop_event /\ setAt.pc \in ActivePcs)
        => /\ sleepsAfterSet <= 1
           /\ rampPc = "done" =>
                 /\ current_power <= target_power
                 /\ (current_power = target_power) <=> SetAtFinalStep

C5_Witness ==
    /\ rampPc = "done" /\ stop_event
    /\ setAt.pc = "incr" /\ sleepsAfterSet = 1
    /\ setAt.power < target_power
    /\ current_power = target_power

\* C6 (as stated): every accepted target and every current-power value shown
\* during or at the end of a run is 0 or lies in MIN_POWER .. MAX_POWER.
C6_ReportedInEnvelopeOrZero ==
    /\ launches > 0 => InEnvelope(target_power)
    /\ \A k \in 1 .. Len(progress) :
          progress[k] = 0 \/ InEnvelope(progress[k])
    /\ \A k \in 1 .. Len(reports) :
          reports[k].power = 0 \/ InEnvelope(reports[k].power)

\* C6 (amended): every accepted target lies in MIN_POWER .. MAX_POWER and
\* every current-power value shown during or at the end of a run lies in
\* 0 .. MAX_POWER.
C6_ReportedWithinMax ==
    /\ launches > 0 => InEnvelope(target_power)
    /\ \A k \in 1 .. Len(progress) : progress[k] \in 0 .. MAX_POWER
    /\ \A k \in 1 .. Len(reports) : reports[k].power \in 0 .. MAX_POWER

C6_Witness ==
    /\ rampPc = "done" /\ target_power = MAX_POWER
    /\ Len(progress) > 0
    /\ progress[1] = power_increment
    /\ progress[Len(progress)] = MAX_POWER
    /\ Len(reports) = 1 /\ reports[1].power = MAX_POWER

\* C7: after a KeyboardInterrupt inside the session loop the foreground never
\* returns to a prompt and never launches a ramp thread, and the stop signal
\* is set by the time the session has ended.
C7_InterruptEndsSession ==
    /\ [](interrupted /\ fgPc \in {"ended", "exited"} => stop_event)
    /\ [][interrupted => (fgPc' \notin LoopPcs /\ launches' = launches)]_vars

C7_Witness ==
    /\ interrupted /\ fgPc = "ended" /\ stop_event
    /\ rampPc \in ActivePcs /\ launches = 1

\* C8: the 'TRANSDUCER STOPPED' report is printed exactly once for every
\* run: never twice for one run and never when no run was started.
C8_ReportOncePerRun ==
    /\ launches = 0 => reports = << >>
    /\ Len(reports) <= 1
    /\ rampPc = "done" => Len(reports) = 1

\* C9: whenever a ramp thread is launched, in any cycle, the stop signal is
\* not set.
C9_SignalClearAtLaunch ==
    /\ fgPc = "start" => ~stop_event
    /\ (fgPc = "join" /\ rampPc = "init0") => ~stop_event

C9_Witness ==
    /\ launches = 2 /\ fgPc = "join" /\ rampPc = "init0"
    /\ ~stop_event

\* C10: the values displayed during one run are strictly increasing, one per
\* loop step, the k-th being min(10*k, target_power); the sequence ends at
\* target_power or at the step where the stop signal stopped the loop.
C10_ProgressSequence ==
    RunInView =>
        /\ \A k \in 1 .. Len(progress) :
              /\ progress[k] = Min(power_increment * k, target_power)
              /\ k > 1 => progress[k - 1] < progress[k]
        /\ rampPc \in SettledPcs =>
              current_power = Min(power_increment * Len(progress), target_power)
        /\ rampPc = "done" =>
              \/ Len(progress) > 0 /\ progress[Len(progress)] = target_power
              \/ stop_event

C10_Witness ==
    /\ rampPc = "done" /\ ~stop_event
    /\ progress = << 10, 20, 30, 40, 50, 55 >>

\* C11: when stop_event.set() runs while the ramp thread is in its sleep
\* (line 69) after displaying a value v < target_power, the run ends with
\* current_power = v and reports 'target reached' false.
C11_StopDuringSleepKeepsValue ==
    (stop_event /\ setAt.pc = "sleep" /\ setAt.power < target_power)
        => /\ current_power = setAt.power
           /\ incsAfterSet = 0
           /\ rampPc = "done" =>
                 \E k \in 1 .. Len(reports) :
                     reports[k] = [by |-> "ramp", power |-> setAt.power,
                                   reached |-> FALSE]

C11_Witness ==
    /\ rampPc = "done" /\ stop_event
    /\ setAt = [pc |-> "sleep", power |-> 40]
    /\ current_power = 40 /\ target_power > 40
    /\ progress = << 10, 20, 30, 40 >>

\* C12: whenever the foreground is at the continue prompt, at the next
\* cycle's prompt, or has ended the session, the ramp thread of the cycle
\* has already terminated.
C12_NoForegroundProgressWhileRamping ==
    fgPc \in {"continue", "clear", "prompt", "assign", "start", "ended"}
        => rampPc \notin ActivePcs

C14_ClearOnlyBetweenRuns ==
    fgPc = "clear" => (rampPc \in {"idle", "done"} /\ ~is_running)

C14_Witness ==
    /\ fgPc = "clear" /\ launches = 1 /\ rampPc = "done"

\* C15: every ramp thread that is started eventually reaches the end of
\* stop_transducer, when the ramp thread is scheduled fairly.
C15_RampTerminates ==
    (rampPc = "init0") ~> (rampPc = "done")

\* C16: the power printed by the emergency stop report equals current_power
\* of the ramp thread once that thread has terminated.
C16_EmergencyReportIsFinalPower ==
    (rampPc = "done" /\ setAt.pc \in ActivePcs)
        => \A k \in 1 .. Len(reports) :
               reports[k].by = "emergency" => reports[k].power = current_power

\* C17: between the launch of a ramp thread and its termination target_power
\* is never assigned, in any cycle.
C17_TargetFixedDuringRun ==
    /\ [](fgPc = "assign" => rampPc \notin ActivePcs)
    /\ [][(rampPc \in ActivePcs) => (target_power' = target_power)]_vars

C17_Witness ==
    /\ launches = 2 /\ rampPc = "sleep"
    /\ target_power = 55 /\ current_power = 55

\* C18: every run, in every cycle, has current_power = 0 before its first
\* increment, whatever the previous run left, so the first displayed value
\* is min(10, target_power).
C18_RunStartsFromZero ==
    /\ (rampPc \in {"init1", "while", "check", "incr"} /\ progress = << >>)
          => current_power = 0
    /\ (RunInView /\ Len(progress) > 0)
          => progress[1] = Min(power_increment, target_power)

C18_Witness ==
    /\ launches = 2 /\ rampPc = "sleep"
    /\ progress = << 10 >>

\* C19: a ramp thread is started only when no earlier ramp thread is still
\* alive, so at most one is alive at any time.
C19_OneRampThread ==
    fgPc = "start" => rampPc \in {"idle", "done"}

C19_Witness ==
    /\ fgPc = "start" /\ launches = 1 /\ rampPc = "done"

\* C20: once emergency_stop has set the signal and set is_running to False,
\* is_running is never True again.
C20_FlagStaysDownAfterEmergency ==
    (interrupted /\ fgPc \in {"estop_rep78", "estop_rep79", "ended", "exited"})
        => ~is_running

====
